---- MODULE Spec2Model ----
(***************************************************************************)
(* Model of xo/main.py: the lazily loading LineWalker (lines, focus,       *)
(* clipboard, the open file), EditDisplay.save_file and re_tab.            *)
(* Text is a sequence of one-character strings.  The file content is the   *)
(* text that open(name) delivers, over the characters of Alphabet.         *)
(***************************************************************************)
EXTENDS Integers, Sequences, FiniteSets, TLC

VARIABLES source, file, lines, focus, clipboard, save_l, outfile, ret, lastOp, edited,
          tab_line, tab_s, tab_pc

walkerVars == <<source, file, lines, focus, clipboard, save_l, outfile, ret, lastOp, edited>>
tabVars == <<tab_line, tab_s, tab_pc>>
vars == <<source, file, lines, focus, clipboard, save_l, outfile, ret, lastOp, edited,
          tab_line, tab_s, tab_pc>>

(* ---------------------------------------------------------------- bounds *)
MaxSrcLen == 2
MaxEdits == 2
MaxTabLen == 9
MaxLongSrcLen == 4
MaxLongEdits == 3

(* ------------------------------------------------------------- constants *)
TabSize == 8

NL == "\n"
TAB == "\t"
SP == " "
Alphabet == {"a", TAB, NL}
LineAlphabet == {"a", SP, TAB}

Texts(n) == UNION {[1..k -> Alphabet] : k \in 0..n}
PlainTexts(n) == UNION {[1..k -> {"a", NL}] : k \in 0..n}
LineTexts(n) == UNION {[1..k -> LineAlphabet] : k \in 0..n}

(* ------------------------------------------------------ python sequences *)
Min(a, b) == IF a < b THEN a ELSE b
Max(a, b) == IF a > b THEN a ELSE b

\* s[a:b] for 0 <= a, b (python slice, clamped to the length)
Slice(s, a, b) == SubSeq(s, a + 1, Min(b, Len(s)))

\* the list index python resolves i to in a list of n elements (-1 is the last)
PyIdx(i, n) == IF i < 0 THEN i + n ELSE i
PyValid(i, n) == PyIdx(i, n) >= 0 /\ PyIdx(i, n) < n

\* list.insert(i, x): the index is clamped into 0..len
PyInsert(s, i, x) ==
    LET k == Max(0, Min(PyIdx(i, Len(s)), Len(s)))
    IN SubSeq(s, 1, k) \o <<x>> \o SubSeq(s, k + 1, Len(s))

\* del list[k] / list.pop(k) for a 0-based index k that is in range
PyDel(s, k) == SubSeq(s, 1, k) \o SubSeq(s, k + 2, Len(s))

Spaces(n) == [i \in 1..n |-> SP]

\* str.expandtabs(): a tab becomes spaces up to the next multiple of 8
RECURSIVE ExpandFrom(_, _, _)
ExpandFrom(s, i, col) ==
    IF i > Len(s) THEN <<>>
    ELSE IF s[i] = TAB
         THEN Spaces(TabSize - (col % TabSize))
              \o ExpandFrom(s, i + 1, col + TabSize - (col % TabSize))
         ELSE IF s[i] = NL
              THEN <<NL>> \o ExpandFrom(s, i + 1, 0)
              ELSE <<s[i]>> \o ExpandFrom(s, i + 1, col + 1)

expandtabs(s) == ExpandFrom(s, 1, 0)

\* str.rstrip(): drop the trailing whitespace
RECURSIVE rstrip(_)
rstrip(s) ==
    IF Len(s) > 0 /\ s[Len(s)] \in {SP, TAB, NL}
    THEN rstrip(SubSeq(s, 1, Len(s) - 1))
    ELSE s

(* ----------------------------------------------------------------- re_tab *)
\* the loop of re_tab: i runs over range(8, len(s), 8); p is the start of the
\* part not yet emitted, acc the join of l
RECURSIVE ReTabLoop(_, _, _, _)
ReTabLoop(s, i, p, acc) ==
    IF i >= Len(s)
    THEN IF p = 0 THEN s ELSE acc \o Slice(s, p, Len(s))
    ELSE IF Slice(s, i - 2, i) = <<SP, SP>>
         THEN ReTabLoop(s, i + 8, i, acc \o rstrip(Slice(s, p, i)) \o <<TAB>>)
         ELSE ReTabLoop(s, i + 8, p, acc)

\* re_tab starting at the second tab stop: range(16, len(s), 8)
re_tab_from_16(s) == ReTabLoop(s, 16, 0, <<>>)

re_tab(s) == ReTabLoop(s, 8, 0, <<>>)

(* ------------------------------------------------------------ the walker *)
\* an edit widget: urwid.Edit state plus the original_text attribute;
\* src is the number of the readline call that produced the record (0 for a
\* record made by split or paste), dirty tells that set_edit_text changed
\* the text at least once
NewEdit(text, pos, orig, n) ==
    [edit_text |-> text, edit_pos |-> pos, original_text |-> orig,
     src |-> n, dirty |-> FALSE]

\* Edit.set_edit_text: the cursor is clamped into the new text
set_edit_text(e, text) ==
    [e EXCEPT !.edit_text = text,
              !.edit_pos = Min(e.edit_pos, Len(text)),
              !.dirty = e.dirty \/ (text # e.edit_text)]

\* Edit.set_edit_pos: clamped into 0..len(edit_text)
set_edit_pos(e, pos) ==
    [e EXCEPT !.edit_pos = Max(0, Min(pos, Len(e.edit_text)))]

Walker == [file |-> file, lines |-> lines, focus |-> focus, clipboard |-> clipboard]

NoClipboard == [isNone |-> TRUE, items |-> <<>>]

\* results of a call
RNone == [kind |-> "None", a |-> 0, b |-> 0]
RWidget(pos) == [kind |-> "widget", a |-> pos, b |-> 0]
RCoords(l, c) == [kind |-> "coords", a |-> l, b |-> c]
RDone == [kind |-> "return", a |-> 0, b |-> 0]
RAssert == [kind |-> "AssertionError", a |-> 0, b |-> 0]
RIndex == [kind |-> "IndexError", a |-> 0, b |-> 0]

\* file.readline(): the text up to and including the next newline, or the rest
RECURSIVE LineEnd(_, _)
LineEnd(s, p) ==
    IF p >= Len(s) THEN Len(s)
    ELSE IF s[p + 1] = NL THEN p + 1 ELSE LineEnd(s, p + 1)

\* readline returning all that is left of the file
readline_rest(f) == Slice(source, f.pos, Len(source))

readline(f) == Slice(source, f.pos, LineEnd(source, f.pos))

\* read_next_line closing the file only when readline returns nothing
read_next_line_eof_only(w) ==
    LET chunk == readline(w.file)
        last == chunk = <<>>
        next_line == IF last THEN chunk ELSE SubSeq(chunk, 1, Len(chunk) - 1)
        f == [isNone |-> last, pos |-> w.file.pos + Len(chunk),
              nread |-> w.file.nread + 1]
        edit == set_edit_pos(NewEdit(expandtabs(next_line), Len(expandtabs(next_line)),
                                     next_line, w.file.nread + 1), 0)
    IN [w |-> [w EXCEPT !.file = f, !.lines = Append(w.lines, edit)],
        line |-> next_line]

\* read_next_line putting the new widget in front of lines
read_next_line_prepend(w) ==
    LET chunk == readline(w.file)
        last == chunk = <<>> \/ chunk[Len(chunk)] # NL
        next_line == IF last THEN chunk ELSE SubSeq(chunk, 1, Len(chunk) - 1)
        f == [isNone |-> last, pos |-> w.file.pos + Len(chunk),
              nread |-> w.file.nread + 1]
        edit == set_edit_pos(NewEdit(expandtabs(next_line), Len(expandtabs(next_line)),
                                     next_line, w.file.nread + 1), 0)
    IN [w |-> [w EXCEPT !.file = f, !.lines = <<edit>> \o w.lines],
        line |-> next_line]

\* LineWalker.read_next_line: the walker after the call and the line returned
read_next_line(w) ==
    LET chunk == readline(w.file)
        last == chunk = <<>> \/ chunk[Len(chunk)] # NL
        next_line == IF last THEN chunk ELSE SubSeq(chunk, 1, Len(chunk) - 1)
        f == [isNone |-> last, pos |-> w.file.pos + Len(chunk),
              nread |-> w.file.nread + 1]
        edit == set_edit_pos(NewEdit(expandtabs(next_line), Len(expandtabs(next_line)),
                                     next_line, w.file.nread + 1), 0)
    IN [w |-> [w EXCEPT !.file = f, !.lines = Append(w.lines, edit)],
        line |-> next_line]

\* _get_at_pos without the test for a position before the first line
get_at_pos_no_top(w, pos) ==
    IF Len(w.lines) > pos THEN [w |-> w, ret |-> RWidget(pos)]
    ELSE IF w.file.isNone THEN [w |-> w, ret |-> RNone]
    ELSE IF pos # Len(w.lines) THEN [w |-> w, ret |-> RAssert]
    ELSE [w |-> read_next_line(w).w, ret |-> RWidget(pos)]

\* _get_at_pos without the assert on the position asked
get_at_pos_no_assert(w, pos) ==
    IF pos < 0 THEN [w |-> w, ret |-> RNone]
    ELSE IF Len(w.lines) > pos THEN [w |-> w, ret |-> RWidget(pos)]
    ELSE IF w.file.isNone THEN [w |-> w, ret |-> RNone]
    ELSE [w |-> read_next_line(w).w, ret |-> RWidget(pos)]

\* LineWalker._get_at_pos
get_at_pos(w, pos) ==
    IF pos < 0 THEN [w |-> w, ret |-> RNone]
    ELSE IF Len(w.lines) > pos THEN [w |-> w, ret |-> RWidget(pos)]
    ELSE IF w.file.isNone THEN [w |-> w, ret |-> RNone]
    ELSE IF pos # Len(w.lines) THEN [w |-> w, ret |-> RAssert]
    ELSE [w |-> read_next_line(w).w, ret |-> RWidget(pos)]

get_focus(w) == get_at_pos(w, w.focus)
get_next(w, start_from) == get_at_pos(w, start_from + 1)
\* get_prev asking for the position it was given
get_prev_same(w, start_from) == get_at_pos(w, start_from)
get_prev(w, start_from) == get_at_pos(w, start_from - 1)

set_focus(w, p) == [w EXCEPT !.focus = p]

\* split_focus inserting the new widget at the focus instead of after it
split_focus_before(w) ==
    IF ~PyValid(w.focus, Len(w.lines)) THEN [w |-> w, ret |-> RIndex]
    ELSE
    LET k == PyIdx(w.focus, Len(w.lines)) + 1
        fe == w.lines[k]
        pos == fe.edit_pos
        rest == Slice(fe.edit_text, pos, Len(fe.edit_text))
        edit == set_edit_pos(NewEdit(rest, Len(rest), <<>>, 0), 0)
        l1 == [w.lines EXCEPT ![k] = set_edit_text(fe, Slice(fe.edit_text, 0, pos))]
    IN [w |-> [w EXCEPT !.lines = PyInsert(l1, w.focus, edit)], ret |-> RDone]

\* LineWalker.split_focus
split_focus(w) ==
    IF ~PyValid(w.focus, Len(w.lines)) THEN [w |-> w, ret |-> RIndex]
    ELSE
    LET k == PyIdx(w.focus, Len(w.lines)) + 1
        fe == w.lines[k]
        pos == fe.edit_pos
        rest == Slice(fe.edit_text, pos, Len(fe.edit_text))
        edit == set_edit_pos(NewEdit(rest, Len(rest), <<>>, 0), 0)
        l1 == [w.lines EXCEPT ![k] = set_edit_text(fe, Slice(fe.edit_text, 0, pos))]
    IN [w |-> [w EXCEPT !.lines = PyInsert(l1, w.focus + 1, edit)], ret |-> RDone]

\* combine_focus_with_prev putting the focus text in front of the text above
combine_focus_with_prev_swapped(w) ==
    LET g == get_prev(w, w.focus)
        w1 == g.w
    IN  IF g.ret.kind = "AssertionError" THEN g
        ELSE IF g.ret.kind = "None" THEN [w |-> w1, ret |-> RDone]
        ELSE IF ~PyValid(w1.focus, Len(w1.lines)) THEN [w |-> w1, ret |-> RIndex]
        ELSE
        LET a == g.ret.a + 1
            k == PyIdx(w1.focus, Len(w1.lines)) + 1
            l1 == [w1.lines EXCEPT ![a] = set_edit_pos(@, Len(@.edit_text))]
            l2 == [l1 EXCEPT ![a] = set_edit_text(@, l1[k].edit_text \o @.edit_text)]
        IN [w |-> [w1 EXCEPT !.lines = PyDel(l2, k - 1), !.focus = w1.focus - 1],
            ret |-> RDone]

\* combine_focus_with_prev leaving the cursor of the line above where it was
combine_focus_with_prev_cursor_kept(w) ==
    LET g == get_prev(w, w.focus)
        w1 == g.w
    IN  IF g.ret.kind = "AssertionError" THEN g
        ELSE IF g.ret.kind = "None" THEN [w |-> w1, ret |-> RDone]
        ELSE IF ~PyValid(w1.focus, Len(w1.lines)) THEN [w |-> w1, ret |-> RIndex]
        ELSE
        LET a == g.ret.a + 1
            k == PyIdx(w1.focus, Len(w1.lines)) + 1
            l2 == [w1.lines EXCEPT ![a] = set_edit_text(@, @.edit_text \o w1.lines[k].edit_text)]
        IN [w |-> [w1 EXCEPT !.lines = PyDel(l2, k - 1), !.focus = w1.focus - 1],
            ret |-> RDone]

\* LineWalker.combine_focus_with_prev
combine_focus_with_prev(w) ==
    LET g == get_prev(w, w.focus)
        w1 == g.w
    IN  IF g.ret.kind = "AssertionError" THEN g
        ELSE IF g.ret.kind = "None" THEN [w |-> w1, ret |-> RDone]
        ELSE IF ~PyValid(w1.focus, Len(w1.lines)) THEN [w |-> w1, ret |-> RIndex]
        ELSE
        LET a == g.ret.a + 1
            k == PyIdx(w1.focus, Len(w1.lines)) + 1
            l1 == [w1.lines EXCEPT ![a] = set_edit_pos(@, Len(@.edit_text))]
            l2 == [l1 EXCEPT ![a] = set_edit_text(@, @.edit_text \o l1[k].edit_text)]
        IN [w |-> [w1 EXCEPT !.lines = PyDel(l2, k - 1), !.focus = w1.focus - 1],
            ret |-> RDone]

\* combine_focus_with_next joining only with a line that lines already holds
combine_focus_with_next_loaded(w) ==
    IF w.focus + 1 >= Len(w.lines) THEN [w |-> w, ret |-> RDone]
    ELSE
    LET g == get_next(w, w.focus)
        w1 == g.w
    IN  IF g.ret.kind = "AssertionError" THEN g
        ELSE IF g.ret.kind = "None" THEN [w |-> w1, ret |-> RDone]
        ELSE IF ~PyValid(w1.focus, Len(w1.lines)) THEN [w |-> w1, ret |-> RIndex]
        ELSE
        LET b == g.ret.a + 1
            k == PyIdx(w1.focus, Len(w1.lines)) + 1
            l1 == [w1.lines EXCEPT ![k] = set_edit_text(@, @.edit_text \o w1.lines[b].edit_text)]
        IN [w |-> [w1 EXCEPT !.lines = PyDel(l1, PyIdx(w1.focus + 1, Len(l1)))],
            ret |-> RDone]

\* LineWalker.combine_focus_with_next
combine_focus_with_next(w) ==
    LET g == get_next(w, w.focus)
        w1 == g.w
    IN  IF g.ret.kind = "AssertionError" THEN g
        ELSE IF g.ret.kind = "None" THEN [w |-> w1, ret |-> RDone]
        ELSE IF ~PyValid(w1.focus, Len(w1.lines)) THEN [w |-> w1, ret |-> RIndex]
        ELSE
        LET b == g.ret.a + 1
            k == PyIdx(w1.focus, Len(w1.lines)) + 1
            l1 == [w1.lines EXCEPT ![k] = set_edit_text(@, @.edit_text \o w1.lines[b].edit_text)]
        IN [w |-> [w1 EXCEPT !.lines = PyDel(l1, PyIdx(w1.focus + 1, Len(l1)))],
            ret |-> RDone]

\* LineWalker.get_coords
get_coords(w) ==
    IF ~PyValid(w.focus, Len(w.lines)) THEN RIndex
    ELSE RCoords(w.focus + 1, w.lines[PyIdx(w.focus, Len(w.lines)) + 1].edit_pos + 1)

\* cut_to_clipboard putting the line in front of the clipboard
cut_to_clipboard_in_front(w) ==
    LET cb == IF w.clipboard.isNone THEN [isNone |-> FALSE, items |-> <<>>]
              ELSE w.clipboard
    IN  IF ~PyValid(w.focus, Len(w.lines))
        THEN [w |-> [w EXCEPT !.clipboard = cb], ret |-> RIndex]
        ELSE
        LET k == PyIdx(w.focus, Len(w.lines))
            l1 == PyDel(w.lines, k)
            f == IF w.focus = Len(l1) THEN w.focus - 1 ELSE w.focus
        IN [w |-> set_focus([w EXCEPT !.lines = l1,
                                      !.clipboard = [cb EXCEPT !.items = <<w.lines[k + 1]>> \o @]],
                            f),
            ret |-> RDone]

\* LineWalker.cut_to_clipboard
cut_to_clipboard(w) ==
    LET cb == IF w.clipboard.isNone THEN [isNone |-> FALSE, items |-> <<>>]
              ELSE w.clipboard
    IN  IF ~PyValid(w.focus, Len(w.lines))
        THEN [w |-> [w EXCEPT !.clipboard = cb], ret |-> RIndex]
        ELSE
        LET k == PyIdx(w.focus, Len(w.lines))
            l1 == PyDel(w.lines, k)
            f == IF w.focus = Len(l1) THEN w.focus - 1 ELSE w.focus
        IN [w |-> set_focus([w EXCEPT !.lines = l1,
                                      !.clipboard = [cb EXCEPT !.items = Append(@, w.lines[k + 1])]],
                            f),
            ret |-> RDone]

\* the loop of paste_from_clipboard going through the clipboard from its first
\* entry to its last
RECURSIVE PasteLoop_forward(_, _, _, _)
PasteLoop_forward(ls, f, cb, i) ==
    IF i = 0 THEN ls
    ELSE PyInsert(PasteLoop_forward(ls, f, cb, i - 1), f,
                  NewEdit(cb[i].edit_text, Len(cb[i].edit_text), <<>>, 0))

\* the loop of paste_from_clipboard: insert cb[i], cb[i-1], ..., cb[1] at focus
RECURSIVE PasteLoop(_, _, _, _)
PasteLoop(ls, f, cb, i) ==
    IF i = 0 THEN ls
    ELSE PasteLoop(PyInsert(ls, f, NewEdit(cb[i].edit_text, Len(cb[i].edit_text), <<>>, 0)),
                   f, cb, i - 1)

\* paste_from_clipboard inserting after the focused line
paste_from_clipboard_after(w) ==
    IF w.clipboard.isNone THEN [w |-> w, ret |-> RDone]
    ELSE LET cb == w.clipboard.items
         IN [w |-> set_focus([w EXCEPT !.lines = PasteLoop(w.lines, w.focus + 1, cb, Len(cb))],
                             w.focus + Len(cb)),
             ret |-> RDone]

\* paste_from_clipboard emptying the clipboard once its entries are inserted
paste_from_clipboard_consume(w) ==
    IF w.clipboard.isNone THEN [w |-> w, ret |-> RDone]
    ELSE LET cb == w.clipboard.items
         IN [w |-> set_focus([w EXCEPT !.lines = PasteLoop(w.lines, w.focus, cb, Len(cb)),
                                       !.clipboard = NoClipboard],
                             w.focus + Len(cb)),
             ret |-> RDone]

\* LineWalker.paste_from_clipboard
paste_from_clipboard(w) ==
    IF w.clipboard.isNone THEN [w |-> w, ret |-> RDone]
    ELSE LET cb == w.clipboard.items
         IN [w |-> set_focus([w EXCEPT !.lines = PasteLoop(w.lines, w.focus, cb, Len(cb))],
                             w.focus + Len(cb)),
             ret |-> RDone]

\* LineWalker.clear_clipboard
clear_clipboard(w) == [w EXCEPT !.clipboard = NoClipboard]

(* -------------------------------------------------------------- save_file *)
\* save_file deciding with re_tab whether a widget still holds its original
SaveLine_re_tab(edit) ==
    IF re_tab(edit.edit_text) = edit.original_text
    THEN edit.original_text
    ELSE edit.edit_text

\* save_file always collecting the text of the widget
SaveLine_edit_text(edit) == edit.edit_text

\* the text save_file collects for one edit widget
SaveLine(edit) ==
    IF expandtabs(edit.original_text) = edit.edit_text
    THEN edit.original_text
    ELSE edit.edit_text

\* "then the rest": read_next_line until the file is closed
RECURSIVE ReadRest(_, _)
ReadRest(w, l) ==
    IF w.file.isNone THEN [w |-> w, l |-> l]
    ELSE LET r == read_next_line(w) IN ReadRest(r.w, Append(l, r.line))

\* outfile.write(line + "\n") for every line
RECURSIVE JoinLines_terminated(_, _)
JoinLines_terminated(l, i) ==
    IF i > Len(l) THEN <<>>
    ELSE l[i] \o <<NL>> \o JoinLines_terminated(l, i + 1)

\* outfile.write(prefix + line) for every line, prefix "" and then "\n"
RECURSIVE JoinLines(_, _)
JoinLines(l, i) ==
    IF i > Len(l) THEN <<>>
    ELSE (IF i = 1 THEN <<>> ELSE <<NL>>) \o l[i] \o JoinLines(l, i + 1)

\* EditDisplay.save_file: the walker after the call, the list l and the text written
save_file(w) ==
    LET l0 == [i \in 1..Len(w.lines) |-> SaveLine(w.lines[i])]
        r == ReadRest(w, l0)
    IN [w |-> r.w, l |-> r.l, text |-> JoinLines(r.l, 1)]

(* ------------------------------------------------------------------ Init *)
NotWritten == [written |-> FALSE, text |-> <<>>]

\* LineWalker.__init__ and EditDisplay.__init__ on a file holding src
InitWalker(src) ==
    /\ source = src
    /\ file = [isNone |-> FALSE, pos |-> 0, nread |-> 0]
    /\ lines = <<>>
    /\ focus = 0
    /\ clipboard = NoClipboard
    /\ save_l = <<>>
    /\ outfile = NotWritten
    /\ ret = RDone
    /\ lastOp = [op |-> "__init__", arg |-> 0]
    /\ edited = 0

Init ==
    /\ \E src \in Texts(MaxSrcLen) : InitWalker(src)
    /\ tab_line = <<>> /\ tab_s = <<>> /\ tab_pc = "idle"

(* --------------------------------------------------------------- actions *)
\* lastOp and ret name the latest call and its result: arg is the position
\* asked of _get_at_pos by a get call and the focus at the time of an editing
\* call; save_l and outfile are the list l and the text written when the
\* latest call was save_file.  edited counts the editing calls (cursor keys,
\* split, join, cut, paste) of the session.
SetWalker(w) ==
    /\ file' = w.file
    /\ lines' = w.lines
    /\ focus' = w.focus
    /\ clipboard' = w.clipboard

Call(name, arg, w, r) ==
    /\ SetWalker(w)
    /\ ret' = r
    /\ lastOp' = [op |-> name, arg |-> arg]
    /\ save_l' = <<>>
    /\ outfile' = NotWritten
    /\ UNCHANGED <<source, tabVars>>

\* the positions a caller passes to get_next: the focus, the last line read
\* (so that the next one is pulled) and two past it
NextFrom == {focus, Len(lines) - 1, Len(lines) + 1}

\* the positions a caller passes to get_prev: the first line and the focus
PrevFrom == {0, focus}

\* the cursor positions tried in a text: both ends and one step in from each
CursorStops(text) == {p \in {0, 1, Len(text) - 1, Len(text)} : p >= 0 /\ p <= Len(text)}

GetFocus ==
    /\ Call("get_focus", focus, get_focus(Walker).w, get_focus(Walker).ret)
    /\ UNCHANGED edited

GetNext ==
    \E start_from \in NextFrom :
        /\ Call("get_next", start_from + 1,
                get_next(Walker, start_from).w, get_next(Walker, start_from).ret)
        /\ UNCHANGED edited

GetPrev ==
    \E start_from \in PrevFrom :
        /\ Call("get_prev", start_from - 1,
                get_prev(Walker, start_from).w, get_prev(Walker, start_from).ret)
        /\ UNCHANGED edited

\* set_focus with a position that a get call returns
SetFocus ==
    \E p \in 0 .. Len(lines) - 1 :
        /\ p # focus
        /\ Call("set_focus", 0, set_focus(Walker, p), RDone)
        /\ UNCHANGED edited

\* the cursor keys of the focus widget: Edit.set_edit_pos on lines[focus]
MoveCursor ==
    /\ PyValid(focus, Len(lines))
    /\ LET k == PyIdx(focus, Len(lines)) + 1
       IN \E p \in CursorStops(lines[k].edit_text) :
            /\ p # lines[k].edit_pos
            /\ edited < MaxEdits /\ edited' = edited + 1
            /\ Call("set_edit_pos", 0,
                    [Walker EXCEPT !.lines[k] = set_edit_pos(@, p)], RDone)

EditWithin(max, name, r) ==
    /\ edited < max
    /\ edited' = edited + 1
    /\ Call(name, focus, r.w, r.ret)

Edit(name, r) == EditWithin(MaxEdits, name, r)

SplitFocus == Edit("split_focus", split_focus(Walker))
CombineFocusWithPrev == Edit("combine_focus_with_prev", combine_focus_with_prev(Walker))
CombineFocusWithNext == Edit("combine_focus_with_next", combine_focus_with_next(Walker))
CutToClipboard == Edit("cut_to_clipboard", cut_to_clipboard(Walker))
PasteFromClipboard == Edit("paste_from_clipboard", paste_from_clipboard(Walker))

ClearClipboard ==
    /\ ~clipboard.isNone
    /\ Call("clear_clipboard", 0, clear_clipboard(Walker), RDone)
    /\ UNCHANGED edited

SaveFile ==
    /\ SetWalker(save_file(Walker).w)
    /\ save_l' = save_file(Walker).l
    /\ outfile' = [written |-> TRUE, text |-> save_file(Walker).text]
    /\ ret' = RDone
    /\ lastOp' = [op |-> "save_file", arg |-> 0]
    /\ UNCHANGED <<source, edited, tabVars>>

Next ==
    \/ GetFocus
    \/ GetNext
    \/ GetPrev
    \/ SetFocus
    \/ MoveCursor
    \/ SplitFocus
    \/ CombineFocusWithPrev
    \/ CombineFocusWithNext
    \/ CutToClipboard
    \/ PasteFromClipboard
    \/ ClearClipboard
    \/ SaveFile

Spec == Init /\ [][Next]_vars

(* ------------------------------------------------- re_tab on its own *)
\* a line is expanded as read_next_line expands it, then given to re_tab
InitTab ==
    /\ InitWalker(<<>>)
    /\ tab_line \in LineTexts(MaxTabLen)
    /\ tab_s = tab_line
    /\ tab_pc = "line"

ExpandTabs ==
    /\ tab_pc = "line"
    /\ tab_s' = expandtabs(tab_s)
    /\ tab_pc' = "expanded"
    /\ UNCHANGED <<tab_line, walkerVars>>

ReTab ==
    /\ tab_pc = "expanded"
    /\ tab_s' = re_tab(tab_s)
    /\ tab_pc' = "retabbed"
    /\ UNCHANGED <<tab_line, walkerVars>>

NextTab ==
    \/ ExpandTabs
    \/ ReTab

SpecTab == InitTab /\ [][NextTab]_vars

(* ------------------------------------------------------- longer files *)
\* sessions on a file of up to MaxLongSrcLen characters in which the user
\* pages down, moves the focus and makes up to MaxLongEdits calls of one
\* kind: of the clipboard, on a file without tabs (SpecClip), or of the join
\* with the line above (SpecJoin)
InitLong ==
    /\ \E src \in PlainTexts(MaxLongSrcLen) : InitWalker(src)
    /\ tab_line = <<>> /\ tab_s = <<>> /\ tab_pc = "idle"

\* get_next from the last line read: the next line of the file is pulled
PageDown ==
    /\ Call("get_next", Len(lines),
            get_next(Walker, Len(lines) - 1).w, get_next(Walker, Len(lines) - 1).ret)
    /\ UNCHANGED edited

ClipCut == EditWithin(MaxLongEdits, "cut_to_clipboard", cut_to_clipboard(Walker))
ClipPaste == EditWithin(MaxLongEdits, "paste_from_clipboard", paste_from_clipboard(Walker))

NextClip ==
    \/ PageDown
    \/ SetFocus
    \/ ClipCut
    \/ ClipPaste
    \/ ClearClipboard

SpecClip == InitLong /\ [][NextClip]_vars

JoinUp == EditWithin(MaxLongEdits, "combine_focus_with_prev", combine_focus_with_prev(Walker))

NextJoin ==
    \/ PageDown
    \/ SetFocus
    \/ JoinUp

InitJoin ==
    /\ \E src \in Texts(MaxLongSrcLen) : InitWalker(src)
    /\ tab_line = <<>> /\ tab_s = <<>> /\ tab_pc = "idle"

SpecJoin == InitJoin /\ [][NextJoin]_vars

(* ------------------------------------------- save_file step by step *)
\* save_file as the interpreter runs it: the loop over walk.lines, then one
\* turn of "while walk.file is not None" at a time, then the write.  A save
\* is under way from its first loop until the write (lastOp names it and
\* nothing is written yet); no other handler runs before it returns.
Saving == lastOp.op = "save_file" /\ ~outfile.written

SaveBegin ==
    /\ ~Saving
    /\ save_l' = [i \in 1..Len(lines) |-> SaveLine(lines[i])]
    /\ outfile' = NotWritten
    /\ ret' = RDone
    /\ lastOp' = [op |-> "save_file", arg |-> 0]
    /\ UNCHANGED <<source, file, lines, focus, clipboard, edited, tabVars>>

SaveRead ==
    /\ Saving
    /\ ~file.isNone
    /\ SetWalker(read_next_line(Walker).w)
    /\ save_l' = Append(save_l, read_next_line(Walker).line)
    /\ UNCHANGED <<source, outfile, ret, lastOp, edited, tabVars>>

SaveWrite ==
    /\ Saving
    /\ file.isNone
    /\ outfile' = [written |-> TRUE, text |-> JoinLines(save_l, 1)]
    /\ UNCHANGED <<source, file, lines, focus, clipboard, save_l, ret, lastOp, edited, tabVars>>

Keys ==
    \/ GetFocus
    \/ GetNext
    \/ GetPrev
    \/ SetFocus
    \/ MoveCursor
    \/ SplitFocus
    \/ CombineFocusWithPrev
    \/ CombineFocusWithNext
    \/ CutToClipboard
    \/ PasteFromClipboard
    \/ ClearClipboard

NextSave ==
    \/ ~Saving /\ Keys
    \/ SaveBegin
    \/ SaveRead
    \/ SaveWrite

\* the loop and the write of a save that has begun are run: the program has
\* one thread and save_file returns to the main loop only after the write
SpecSave == Init /\ [][NextSave]_vars /\ WF_vars(SaveRead) /\ WF_vars(SaveWrite)

(* ================================================================ claims *)
\* the lines of a text: text.split("\n")
RECURSIVE SplitNL(_)
SplitNL(s) ==
    IF \A i \in 1..Len(s) : s[i] # NL THEN <<s>>
    ELSE LET i == CHOOSE j \in 1..Len(s) : s[j] = NL /\ \A k \in 1..(j - 1) : s[k] # NL
         IN <<SubSeq(s, 1, i - 1)>> \o SplitNL(SubSeq(s, i + 1, Len(s)))

RawLines == SplitNL(source)
HasTab(s) == \E i \in 1..Len(s) : s[i] = TAB
TextOf(ls) == [i \in 1..Len(ls) |-> ls[i].edit_text]
Saved == lastOp.op = "save_file"

\* C1: when no editing call was made before it, save_file writes exactly the
\* content of the source, whatever part of it navigation had loaded and
\* whether or not it ends with a newline.
RoundTrip == (Saved /\ edited = 0) => (outfile.written /\ outfile.text = source)

\* a source with a tab that ends with a newline was saved unedited
RoundTripWitness ==
    /\ Saved /\ edited = 0
    /\ HasTab(source) /\ source[Len(source)] = NL
    /\ outfile.text = source

\* C2: save_file emits, for every record read from the source whose text
\* was never changed, the raw line of the source it was read from, whatever
\* was done to the other lines.
UntouchedKept ==
    Saved => \A i \in 1..Len(lines) :
                (lines[i].src # 0 /\ ~lines[i].dirty)
                    => (i <= Len(save_l) /\ save_l[i] = RawLines[lines[i].src])

\* after an editing call that changed the lines, an untouched line with a tab
\* was saved
UntouchedKeptWitness ==
    /\ Saved /\ edited > 0
    /\ \E i \in 1..Len(lines) :
          /\ lines[i].src # 0 /\ ~lines[i].dirty /\ HasTab(lines[i].original_text)
          /\ lines[i].src # i
          /\ save_l[i] = RawLines[lines[i].src]

CutDone == lastOp.op = "cut_to_clipboard" /\ ret = RDone
SplitDone == lastOp.op = "split_focus" /\ ret = RDone

\* what holds of a cut (from the unprimed to the primed state) and the paste
\* that follows it
CutPaste ==
    LET p == paste_from_clipboard(Walker').w
    IN /\ TextOf(p.lines) = TextOf(lines)
       /\ ~clipboard'.isNone /\ Len(clipboard'.items) > 0
       /\ ~p.clipboard.isNone /\ Len(p.clipboard.items) > 0

\* C3 as claimed: a cut followed at once by a paste gives back the lines as
\* they were before the cut, for every focused line and every clipboard, and
\* the clipboard is not empty after either call.
CutPasteRestoresAlways == [][CutDone' => CutPaste]_vars

\* C3: a cut followed at once by a paste gives back the lines as they were
\* before the cut when the clipboard held nothing before the cut and the
\* focused line was the only line or not the last one; the clipboard is not
\* empty after either call.
CutPasteRestores ==
    [][(/\ CutDone'
        /\ Len(clipboard.items) = 0
        /\ focus >= 0
        /\ (focus < Len(lines) - 1 \/ Len(lines) = 1)) => CutPaste]_vars

\* a line that has a different line after it was cut into a clipboard that
\* was empty: the focus stayed, on the line that followed
CutPasteWitness ==
    /\ CutDone
    /\ Len(clipboard.items) = 1
    /\ lastOp.arg = focus /\ focus >= 1 /\ focus < Len(lines)
    /\ lines[focus + 1].edit_text # clipboard.items[1].edit_text
    /\ Len(paste_from_clipboard(Walker).w.lines) = Len(lines) + 1

\* C4: split_focus followed at once by combine_focus_with_next gives back the
\* lines as they were before the split (as many, with the same texts) and
\* leaves the focus where it was.
SplitJoinNext ==
    [][SplitDone' =>
        LET c == combine_focus_with_next(Walker')
        IN /\ c.ret = RDone
           /\ TextOf(c.w.lines) = TextOf(lines)
           /\ c.w.focus = focus]_vars

\* a line was split inside its text: both halves are not empty and differ
SplitJoinNextWitness ==
    /\ SplitDone /\ focus >= 0
    /\ lines[focus + 1].edit_text # <<>>
    /\ lines[focus + 2].edit_text # <<>>
    /\ lines[focus + 1].edit_text # lines[focus + 2].edit_text

\* C5 as claimed: split_focus followed at once by combine_focus_with_prev,
\* the focus not moved in between, gives back the texts of the lines as they
\* were before the split.
SplitJoinPrevSameFocus ==
    [][SplitDone' =>
        TextOf(combine_focus_with_prev(Walker').w.lines) = TextOf(lines)]_vars

\* C5: split_focus on a focus in 0..len(lines)-1, then set_focus on the new
\* line below, then combine_focus_with_prev give back the texts of the lines
\* as they were before the split, with the focus back on the line split.
SplitJoinPrev ==
    [][(SplitDone' /\ focus >= 0) =>
        LET c == combine_focus_with_prev(set_focus(Walker', focus' + 1))
        IN /\ c.ret = RDone
           /\ TextOf(c.w.lines) = TextOf(lines)
           /\ c.w.focus = focus]_vars

\* a line that is not the first was split inside its text
SplitJoinPrevWitness ==
    /\ SplitDone /\ focus >= 1
    /\ lines[focus + 1].edit_text # <<>>
    /\ lines[focus + 2].edit_text # <<>>

GetDone == lastOp.op \in {"get_focus", "get_next", "get_prev"}

\* C6 as claimed: a get call for position -1 or for a position past
\* len(lines) returns no line and changes nothing, whether or not the file
\* is closed.
OutsideIsNoLineAlways ==
    [][(GetDone' /\ (lastOp'.arg = -1 \/ lastOp'.arg > Len(lines)))
        => (ret' = RNone /\ Walker' = Walker)]_vars

\* C6: a get call for position -1, or for a position past len(lines) once
\* the file is closed, returns no line and changes neither lines, focus nor
\* the file.
OutsideIsNoLine ==
    [][(GetDone' /\ (lastOp'.arg = -1 \/ (lastOp'.arg > Len(lines) /\ file.isNone)))
        => (ret' = RNone /\ Walker' = Walker)]_vars

\* get_next asked for two past the last line of a file read to its end
OutsideIsNoLineWitness ==
    /\ lastOp.op = "get_next" /\ lastOp.arg = Len(lines) + 2
    /\ Len(lines) > 0 /\ file.isNone
    /\ ret = RNone

(* ------------------------------------------------------ re_tab, expandtabs *)
\* the column at which character i of a line is shown
Col(line, i) == Len(expandtabs(SubSeq(line, 1, i - 1)))

NoLiteralSpace(line) == \A i \in 1..Len(line) : line[i] # SP

\* every tab expands to two spaces or more, has no space right before it and
\* is not the last character; no two spaces of the line end at a tab stop
TabsAligned(line) ==
    \A i \in 1..Len(line) :
        /\ line[i] = TAB =>
              /\ TabSize - (Col(line, i) % TabSize) >= 2
              /\ i < Len(line)
              /\ (i > 1 => line[i - 1] # SP)
        /\ (line[i] = SP /\ i > 1 /\ line[i - 1] = SP) =>
              (Col(line, i) + 1) % TabSize # 0

\* C7 as claimed: re_tab gives back every line whose white space is tabs
\* only, a tab that expands to one space and a tab that ends the line
\* included, from its expansion.
ReTabInvertsEveryTab ==
    (tab_pc = "retabbed" /\ NoLiteralSpace(tab_line)) => tab_s = tab_line

\* C7: re_tab(expandtabs(line)) is the line when every tab of the line
\* expands to two spaces or more, has no space right before it and is not the
\* last character of the line, and no two spaces of the line end at a tab stop.
ReTabInverts ==
    (tab_pc = "retabbed" /\ TabsAligned(tab_line)) => tab_s = tab_line

\* a line with two tabs, one of them after a space-free word, came back
ReTabInvertsWitness ==
    /\ tab_pc = "retabbed" /\ TabsAligned(tab_line)
    /\ Cardinality({i \in 1..Len(tab_line) : tab_line[i] = TAB}) = 2
    /\ tab_line[1] = "a"
    /\ tab_s = tab_line

(* -------------------------------------------------------- save's decision *)
\* C8 as claimed: save_file emits original_text when re_tab(edit_text) is
\* original_text, and edit_text otherwise.
SaveDecidesByReTab ==
    Saved => \A i \in 1..Len(lines) :
                i <= Len(save_l) /\
                save_l[i] = IF re_tab(lines[i].edit_text) = lines[i].original_text
                            THEN lines[i].original_text
                            ELSE lines[i].edit_text

\* C8: save_file emits, for every record of lines, original_text when
\* expandtabs(original_text) is edit_text, and edit_text otherwise.
SaveDecidesByExpand ==
    Saved => /\ Len(save_l) = Len(lines)
             /\ \A i \in 1..Len(lines) :
                  save_l[i] = IF expandtabs(lines[i].original_text) = lines[i].edit_text
                              THEN lines[i].original_text
                              ELSE lines[i].edit_text

\* a save with a line that lost the text of its tab and a line that kept its
\* text
SaveDecidesWitness ==
    /\ Saved
    /\ \E i \in 1..Len(lines) :
          /\ HasTab(lines[i].original_text)
          /\ expandtabs(lines[i].original_text) # lines[i].edit_text
          /\ save_l[i] = lines[i].edit_text
    /\ \E j \in 1..Len(lines) :
          /\ lines[j].src # 0
          /\ expandtabs(lines[j].original_text) = lines[j].edit_text

(* ------------------------------------------------------------------ focus *)
\* C9: when lines is not empty, focus is the index of one of its records.
FocusInRange == Len(lines) > 0 => (0 <= focus /\ focus < Len(lines))

(* ------------------------------------------------------------ closed file *)
NumNL(s) == Cardinality({i \in 1..Len(s) : s[i] = NL})
LoadedCount(ls) == Cardinality({i \in 1..Len(ls) : ls[i].src # 0})

\* C10: once readline has returned the text after the last newline of the
\* source (a line without newline, or nothing), the file is None, it stays
\* None, and no call adds a record read from the source to lines.
ClosedForGood ==
    /\ [](file.nread > NumNL(source) => file.isNone)
    /\ [][file.isNone => (file' = file /\ LoadedCount(lines') <= LoadedCount(lines))]_vars

\* combine_focus_with_next asked for the line after the last one of a closed
\* file and got none
ClosedForGoodWitness ==
    /\ file.isNone /\ file.nread = NumNL(source) + 1
    /\ lastOp.op = "combine_focus_with_next" /\ ret = RDone
    /\ Len(lines) > 0 /\ lastOp.arg = Len(lines) - 1 /\ focus = lastOp.arg
    /\ LoadedCount(lines) = file.nread

(* -------------------------------------------------------------- clipboard *)
PasteDone == lastOp.op = "paste_from_clipboard" /\ ret = RDone

\* C11: paste_from_clipboard with a clipboard of n entries and
\* 0 <= focus <= len(lines) makes lines[focus + i] a record with the text of
\* clipboard[i] and original_text "" for every i < n, leaves the records
\* that were before and after the focus as they were and in their order
\* around the n new ones, and moves the focus to focus + n.
PasteInserts ==
    [][(PasteDone' /\ ~clipboard.isNone /\ 0 <= focus /\ focus <= Len(lines)) =>
        LET n == Len(clipboard.items)
        IN /\ Len(lines') = Len(lines) + n
           /\ focus' = focus + n
           /\ \A i \in 0..(n - 1) :
                /\ lines'[focus + i + 1].edit_text = clipboard.items[i + 1].edit_text
                /\ lines'[focus + i + 1].original_text = <<>>
           /\ SubSeq(lines', 1, focus) = SubSeq(lines, 1, focus)
           /\ SubSeq(lines', focus + n + 1, Len(lines'))
                = SubSeq(lines, focus + 1, Len(lines))]_vars

\* two entries with different texts were pasted between two lines
PasteInsertsWitness ==
    /\ PasteDone
    /\ Len(clipboard.items) = 2
    /\ clipboard.items[1].edit_text # clipboard.items[2].edit_text
    /\ lastOp.arg >= 1 /\ focus = lastOp.arg + 2 /\ focus < Len(lines)
    /\ lines[lastOp.arg + 1].edit_text = clipboard.items[1].edit_text
    /\ lines[lastOp.arg + 2].edit_text = clipboard.items[2].edit_text

\* C12: paste_from_clipboard leaves the clipboard and the file as they were,
\* so that a second paste right after it inserts the same texts again, next
\* to the first copies; with no clipboard it leaves lines and focus as they
\* were too.
PasteKeepsClipboard ==
    [][(lastOp'.op = "paste_from_clipboard") =>
        LET p == paste_from_clipboard(Walker').w
            n == Len(clipboard.items)
        IN /\ clipboard' = clipboard
           /\ file' = file
           /\ p.clipboard = clipboard
           /\ Len(p.lines) = Len(lines) + 2 * n
           /\ focus >= 0 =>
                TextOf(p.lines) = TextOf(SubSeq(lines, 1, focus))
                                    \o TextOf(clipboard.items) \o TextOf(clipboard.items)
                                    \o TextOf(SubSeq(lines, focus + 1, Len(lines)))
           /\ clipboard.isNone => (lines' = lines /\ focus' = focus)]_vars

\* the second of two pastes of the same entry: both copies are in lines
PasteKeepsClipboardWitness ==
    /\ PasteDone
    /\ Len(clipboard.items) = 1
    /\ lastOp.arg >= 1 /\ focus = lastOp.arg + 1 /\ focus < Len(lines)
    /\ lines[focus].src = 0 /\ lines[focus - 1].src = 0
    /\ lines[focus].edit_text = clipboard.items[1].edit_text
    /\ lines[focus - 1].edit_text = clipboard.items[1].edit_text
    /\ lines[focus + 1].edit_text # clipboard.items[1].edit_text

\* C13: cut_to_clipboard removes the focused record from lines and nothing
\* else, appends it to the clipboard (made if there was none) after the
\* entries already there, and leaves the focus where it was when the record
\* was not the last line, or on the new last index len(lines) - 1 when it was.
CutMovesLine ==
    [][CutDone' =>
        LET k == PyIdx(focus, Len(lines))
        IN /\ lines' = PyDel(lines, k)
           /\ ~clipboard'.isNone
           /\ clipboard'.items = Append(clipboard.items, lines[k + 1])
           /\ focus' = IF k = Len(lines) - 1 THEN Len(lines') - 1 ELSE focus]_vars

(* ------------------------------------------------------------------ joins *)
\* C14: with the focus on line 0, wherever the cursor is in it,
\* combine_focus_with_prev returns without changing lines (their number,
\* texts and cursors), the focus, the clipboard or the file.
JoinPrevAtTop ==
    [][(lastOp'.op = "combine_focus_with_prev" /\ focus = 0)
        => (ret' = RDone /\ Walker' = Walker)]_vars

\* combine_focus_with_prev was called on the first of several lines with the
\* cursor inside its text
JoinPrevAtTopWitness ==
    /\ lastOp.op = "combine_focus_with_prev" /\ lastOp.arg = 0 /\ ret = RDone
    /\ focus = 0 /\ Len(lines) >= 2
    /\ lines[1].edit_pos > 0

(* ---------------------------------------------------------------- loading *)
\* C15: a get call reads at most one line of the file, and reads one exactly
\* when the position asked is len(lines) and the file is not closed: the
\* record of that line is then appended to lines with its cursor at 0 and
\* returned with the position asked, nothing else changing.  A call for a
\* position that lines already holds changes nothing and returns that line.
GetPullsOne ==
    [][GetDone' =>
        LET pos == lastOp'.arg
            pulled == file'.nread - file.nread
            last == Len(lines')
        IN /\ pulled \in {0, 1}
           /\ (pulled = 1) <=> (pos = Len(lines) /\ ~file.isNone)
           /\ (pulled = 1) =>
                /\ last = Len(lines) + 1
                /\ SubSeq(lines', 1, Len(lines)) = lines
                /\ lines'[last].src = file'.nread
                /\ lines'[last].edit_text = expandtabs(RawLines[file'.nread])
                /\ lines'[last].edit_pos = 0
                /\ ret' = RWidget(pos)
                /\ focus' = focus /\ clipboard' = clipboard
           /\ (pulled = 0) => (lines' = lines /\ file' = file)
           /\ (0 <= pos /\ pos < Len(lines)) => (Walker' = Walker /\ ret' = RWidget(pos))]_vars

\* get_next pulled the second line of the file, which differs from the first
GetPullsOneWitness ==
    /\ lastOp.op = "get_next" /\ lastOp.arg = 1 /\ ret = RWidget(1)
    /\ Len(lines) = 2 /\ lines[2].src = 2 /\ file.nread = 2
    /\ lines[2].edit_pos = 0
    /\ lines[1].edit_text # lines[2].edit_text

\* C16: combine_focus_with_next with the focus on the last line of lines and
\* the file not closed reads one line of the file and joins it: the text of
\* the focused line becomes its text followed by the text of the line read,
\* and len(lines), the focus and the other lines are as before the call.
\* With the file closed and no line after the focus it changes nothing.
JoinNextPulls ==
    [][(lastOp'.op = "combine_focus_with_next") =>
        /\ (Len(lines) >= 1 /\ focus = Len(lines) - 1 /\ ~file.isNone) =>
              /\ ret' = RDone
              /\ file'.nread = file.nread + 1
              /\ Len(lines') = Len(lines)
              /\ focus' = focus
              /\ lines'[focus + 1].edit_text
                    = lines[focus + 1].edit_text \o expandtabs(RawLines[file'.nread])
              /\ \A i \in 1..Len(lines) : i # focus + 1 => lines'[i] = lines[i]
              /\ clipboard' = clipboard
        /\ (file.isNone /\ focus + 1 >= Len(lines)) =>
              (ret' = RDone /\ Walker' = Walker)]_vars

\* the last line loaded was joined with a line of text read for the join
JoinNextPullsWitness ==
    /\ lastOp.op = "combine_focus_with_next" /\ ret = RDone
    /\ Len(lines) >= 1 /\ focus = Len(lines) - 1 /\ lastOp.arg = focus
    /\ file.nread = Len(lines) + 1
    /\ lines[focus + 1].src = focus + 1
    /\ lines[focus + 1].edit_text
          = expandtabs(RawLines[focus + 1]) \o expandtabs(RawLines[focus + 2])
    /\ RawLines[focus + 2] # <<>>

\* C17: combine_focus_with_prev with focus > 0 gives the line above the focus
\* its text followed by the text of the focused line, puts the cursor of that
\* line where its text ended before the call, removes the focused record
\* (len(lines) is one less, the other lines as before and in their order) and
\* moves the focus to focus - 1; it reads nothing from the file.
JoinPrevJoins ==
    [][(lastOp'.op = "combine_focus_with_prev" /\ focus > 0) =>
        /\ ret' = RDone
        /\ Len(lines') = Len(lines) - 1
        /\ focus' = focus - 1
        /\ lines'[focus].edit_text = lines[focus].edit_text \o lines[focus + 1].edit_text
        /\ lines'[focus].edit_pos = Len(lines[focus].edit_text)
        /\ \A i \in 1..Len(lines) :
              /\ i < focus => lines'[i] = lines[i]
              /\ i > focus + 1 => lines'[i - 1] = lines[i]
        /\ file' = file
        /\ clipboard' = clipboard]_vars

\* the second line of the file, a tab, was joined to the first, a letter:
\* the cursor is between the two texts
JoinPrevJoinsWitness ==
    /\ lastOp.op = "combine_focus_with_prev" /\ ret = RDone
    /\ lastOp.arg = 1 /\ focus = 0
    /\ lines[1].edit_pos = 1
    /\ lines[1].edit_text = <<"a">> \o Spaces(TabSize)
    /\ Len(lines) >= 2

(* ------------------------------------------------------- save terminates *)
\* what a step of save_file (its first loop, a turn of its second loop, the
\* write) leaves alone: the focus, the clipboard and every record lines
\* held; a record it adds is the next line of the file, put after them
SaveStepKeeps ==
    /\ focus' = focus
    /\ clipboard' = clipboard
    /\ SubSeq(lines', 1, Len(lines)) = lines
    /\ lines' # lines =>
          /\ Len(lines') = Len(lines) + 1
          /\ file'.nread = file.nread + 1
          /\ lines'[Len(lines')].src = file'.nread
          /\ lines'[Len(lines')].original_text = RawLines[file'.nread]

\* C18: a save that has begun comes to its write, whatever the file and the
\* state it began in; the file is then closed with every line of it read,
\* and no step of the save has changed the focus, the clipboard or a record
\* (text, original_text, cursor) that lines held: the lines it read are
\* records added after them, in the order of the file.
SaveCompletes ==
    /\ Saving ~> (Saved /\ outfile.written)
    /\ []((Saved /\ outfile.written) =>
            (file.isNone /\ file.nread = NumNL(source) + 1 /\ Len(save_l) = Len(lines)))
    /\ [][(Saving \/ Saving') => SaveStepKeeps]_vars

\* a save has ended that found lines edited, a clipboard and the file open
\* or closed: lines holds fewer records of the file than the file has lines
SaveCompletesWitness ==
    /\ Saved /\ outfile.written
    /\ file.isNone /\ file.nread = 3
    /\ ~clipboard.isNone
    /\ Len(lines) = 2 /\ lines[2].src = 3

(* ------------------------------------------------------ cuts, then paste *)
\* the walker after n more calls of cut_to_clipboard
RECURSIVE Cuts(_, _)
Cuts(w, n) == IF n = 0 THEN w ELSE cut_to_clipboard(Cuts(w, n - 1)).w

\* after a first cut (from the unprimed to the primed state), k - 1 more cuts
\* and a paste give back the texts of the lines before the first cut
CutsPasteRestores(k) ==
    TextOf(paste_from_clipboard(Cuts(Walker', k - 1)).w.lines) = TextOf(lines)

\* the cuts after the first, up to the k-th, are called with the focus where
\* the first was called and find a line there
CutsAtFocus(k) ==
    \A j \in 1..(k - 1) :
        /\ Cuts(Walker', j - 1).focus = focus
        /\ cut_to_clipboard(Cuts(Walker', j - 1)).ret = RDone

\* C19 as claimed: k cuts in a row called at the same focus, the first with
\* no clipboard, then one paste give back the lines (as many, with the same
\* texts in the same order) as before the first cut, for every k >= 1.
CutsPasteRestoresAlways ==
    [][(CutDone' /\ clipboard.isNone) =>
        \A k \in 1..Len(lines) : CutsAtFocus(k) => CutsPasteRestores(k)]_vars

\* C19: k cuts in a row at a focus >= 0, the first with no clipboard, then
\* one paste give back the lines (as many, with the same texts in the same
\* order) as before the first cut when a line is left after the k lines cut,
\* that is when focus + k < len(lines) before the first cut.
CutsPasteRestoresInside ==
    [][(CutDone' /\ clipboard.isNone /\ focus >= 0) =>
        \A k \in 1..Len(lines) :
            (focus + k < Len(lines)) => (CutsAtFocus(k) /\ CutsPasteRestores(k))]_vars

\* the first of two cuts of different lines that have a line after them: the
\* second cut and the paste put both back in their order
CutsPasteWitness ==
    /\ CutDone /\ Len(clipboard.items) = 1
    /\ lastOp.arg = focus /\ focus >= 0 /\ focus + 1 < Len(lines)
    /\ clipboard.items[1].edit_text # lines[focus + 1].edit_text
    /\ TextOf(paste_from_clipboard(Cuts(Walker, 1)).w.lines)
          = SubSeq(TextOf(lines), 1, focus) \o <<clipboard.items[1].edit_text>>
              \o SubSeq(TextOf(lines), focus + 1, Len(lines))

(* ------------------------------------------------------ reading to the end *)
\* C20: as long as no editing call was made, whatever get calls and saves
\* have read, lines holds the lines of the file read so far, one record per
\* line in the order of the file, none left out and none twice; the file is
\* closed exactly when the record of line T + 1 is there, T the number of
\* newlines of the file, so lines ends with T + 1 records; the last of them
\* is empty when the file is empty or ends with a newline.
ReadsEveryLine ==
    edited = 0 =>
        /\ Len(lines) = file.nread
        /\ Len(lines) <= NumNL(source) + 1
        /\ file.isNone <=> (Len(lines) = NumNL(source) + 1)
        /\ \A i \in 1..Len(lines) :
              /\ lines[i].src = i
              /\ lines[i].original_text = RawLines[i]
              /\ lines[i].edit_text = expandtabs(RawLines[i])
        /\ (file.isNone /\ (source = <<>> \/ source[Len(source)] = NL))
              => lines[Len(lines)].edit_text = <<>>

\* get_next read the last line, an empty one, of a file of a line with a tab
\* that ends with a newline
ReadsEveryLineWitness ==
    /\ edited = 0 /\ file.isNone
    /\ lastOp.op = "get_next" /\ ret = RWidget(1)
    /\ HasTab(source) /\ source[Len(source)] = NL
    /\ Len(lines) = 2 /\ lines[2].edit_text = <<>>
    /\ lines[1].edit_text = Spaces(TabSize)

====
